---- MODULE Spec2Model ----
(***************************************************************************)
(* Model of fastplotlib's ImageWidget (fastplotlib/widgets/image.py):      *)
(* the constructor and its validation of the arguments, the current_index  *)
(* property, the window_funcs property, the slider callbacks and the       *)
(* slice extraction (_process_indices, _get_window_indices,                *)
(* _process_frame_apply).                                                  *)
(*                                                                         *)
(* Conventions.  Python's None is the empty set and a present value v is   *)
(* the singleton {v}.  Array dimensions are numbered from 0 as in numpy;   *)
(* a coordinate is a sequence whose position d + 1 holds the index along   *)
(* dimension d.  An n-dimensional array is a record [kind, func, shape,    *)
(* at] where at maps every coordinate to an element; the elements of the   *)
(* data arrays are symbolic (object, coordinate) cells, and the result of  *)
(* an aggregation or of a user function is a symbolic application node,    *)
(* so two frames are equal exactly when they were computed from the same   *)
(* cells by the same functions in the same order.                          *)
(***************************************************************************)
EXTENDS Integers, Sequences, FiniteSets, TLC

VARIABLES
    data,             \* self._data: the list of displayed array objects
    dims_order,       \* self._dims_order: one axis-order per array
    slider_dims,      \* self._slider_dims: list of slider axis labels
    frame_apply,      \* self.frame_apply: dict array index -> function or None
    window_funcs,     \* self._window_funcs: None or dict label -> None or _WindowFunctions
    dims_max_bounds,  \* self._dims_max_bounds
    current_index,    \* self._current_index
    sliders,          \* self._sliders[k].value
    block_sliders,    \* self.block_sliders
    image_graphics,   \* the frame held by each ImageGraphic
    plot,             \* self._plot: "none" before a Plot ("single") or GridPlot ("grid") is created
    lastOp,           \* observation: the operation performed last
    lastArg,          \* observation: the argument of the last current_index assignment that returned
    lastFaults,       \* observation: what was wrong with the argument of the last assignment
    lastWin,          \* observation: the argument of the last window_funcs assignment
    lastResult,       \* observation: "ok" or the exception class the last operation raised
    nNotify,          \* observation: slider change notifications delivered during the last operation
    nUpdate,          \* observation: update_data calls per array during the last operation
    nProcess,         \* observation: _process_indices calls per array during the last operation
    lastFrame         \* observation: when the last operation was a direct call of
                      \* _process_indices, the array it was given and its result

vars == <<data, dims_order, slider_dims, frame_apply, window_funcs, dims_max_bounds,
          current_index, sliders, block_sliders, image_graphics,
          plot, lastOp, lastArg, lastFaults, lastWin, lastResult, nNotify, nUpdate, nProcess,
          lastFrame>>

cfgVars == <<data, dims_order, slider_dims, frame_apply, dims_max_bounds, plot>>

\* ------------------------------------------------------------------------
\* Bounds of the model
\* ------------------------------------------------------------------------
\* sizes of the data arrays along their numeric dimensions
SizeLong == 3
SizeMid == 3
SizeShort == 2
SizeDeep == 6
SizeX == 2
SizeY == 2
\* largest window size offered to the window_size setter
MaxWs == 4
\* the index values offered to the current_index setter are -1 .. MaxVal
MaxVal == SizeLong + 1

\* ------------------------------------------------------------------------
\* Python values
\* ------------------------------------------------------------------------
None == {}
Some(v) == {v}
Get(o) == CHOOSE v \in o : TRUE

Min(a, b) == IF a <= b THEN a ELSE b
Max(a, b) == IF a >= b THEN a ELSE b

Range(s) == {s[j] : j \in 1..Len(s)}

\* the sequence with the elements of the function f on 1 .. n
AsSeq(f, n) == SubSeq(f, 1, n)

\* str.index / list.index, 0-based
IndexOf(order, ch) == (CHOOSE j \in 1..Len(order) : order[j] = ch /\ \A m \in 1..(j-1) : order[m] # ch) - 1

\* ------------------------------------------------------------------------
\* numpy arrays
\* ------------------------------------------------------------------------
\* the coordinates of an array of the given shape
SeqMax(shape) == IF Len(shape) = 0 THEN 0 ELSE CHOOSE m \in Range(shape) : \A x \in Range(shape) : x <= m
Coords(shape) ==
    {c \in [1..Len(shape) -> 0..(SeqMax(shape) - 1)] : \A j \in 1..Len(shape) : c[j] < shape[j]}

NdArray(shape, at) == [kind |-> "ndarray", func |-> "", shape |-> shape, at |-> at]
Raised(exc) == [kind |-> exc, func |-> "", shape |-> <<>>, at |-> <<>>]
NoneFrame == [kind |-> "None", func |-> "", shape |-> <<>>, at |-> <<>>]
IsArray(a) == a.kind = "ndarray"

Cell(obj, c) == [op |-> "cell", obj |-> obj, leaf |-> c, kids |-> <<>>]
Agg(func, kids) == [op |-> func, obj |-> "", leaf |-> <<>>, kids |-> kids]

\* the shapes of the array objects a widget can be given
ShapeOf(obj) ==
    CASE obj = "A" -> <<SizeLong, SizeMid, SizeX, SizeY>>
      [] obj = "B" -> <<SizeShort, SizeLong, SizeX, SizeY>>
      [] obj = "C" -> <<SizeMid, SizeX, SizeShort, SizeY>>
      [] obj = "D" -> <<SizeDeep, SizeShort, SizeX, SizeY>>
      [] obj = "E" -> <<SizeLong, SizeX, SizeY>>
      [] obj = "F" -> <<SizeX, SizeY>>

Array(obj) == NdArray(ShapeOf(obj), [c \in Coords(ShapeOf(obj)) |-> Cell(obj, c)])

\* index entries: slice(None), an int, or a range(lo, hi)
SliceAll == [kind |-> "slice", lo |-> 0, hi |-> 0]
IntIx(i) == [kind |-> "int", lo |-> i, hi |-> i]
RangeIx(lo, hi) == [kind |-> "range", lo |-> lo, hi |-> hi]

\* the dimensions (1-based positions) that survive a[tuple(indexer)]
KeptDims(indexer) == SelectSeq([j \in 1..Len(indexer) |-> j], LAMBDA j : indexer[j].kind # "int")

\* numpy bounds check of one index entry against the size of its dimension
EntryInBounds(e, size) ==
    CASE e.kind = "slice" -> TRUE
      [] e.kind = "int" -> -size <= e.lo /\ e.lo < size
      [] e.kind = "range" -> \A v \in e.lo..(e.hi - 1) : -size <= v /\ v < size

\* numpy wraps a negative index
Wrap(v, size) == IF v < 0 THEN v + size ELSE v

\* a[tuple(indexer)]: ints drop their dimension, a range selects its indices
\* in order and keeps the dimension, slice(None) keeps the whole dimension
GetItem(a, indexer) ==
    IF \E j \in 1..Len(indexer) : ~EntryInBounds(indexer[j], a.shape[j])
    THEN Raised("IndexError")
    ELSE LET kept == KeptDims(indexer)
             newshape == AsSeq([p \in 1..Len(kept) |->
                                   IF indexer[kept[p]].kind = "range"
                                   THEN Max(0, indexer[kept[p]].hi - indexer[kept[p]].lo)
                                   ELSE a.shape[kept[p]]], Len(kept))
             src(c) == AsSeq([j \in 1..Len(indexer) |->
                               CASE indexer[j].kind = "int" -> Wrap(indexer[j].lo, a.shape[j])
                                 [] indexer[j].kind = "range" ->
                                      Wrap(indexer[j].lo + c[IndexOf(kept, j) + 1], a.shape[j])
                                 [] OTHER -> c[IndexOf(kept, j) + 1]], Len(indexer))
         IN  NdArray(newshape, [c \in Coords(newshape) |-> a.at[src(c)]])

\* sequence s with value v inserted so that it lands at position p
InsertAt(s, p, v) == SubSeq(s, 1, p - 1) \o <<v>> \o SubSeq(s, p, Len(s))
RemoveAt(s, p) == SubSeq(s, 1, p - 1) \o SubSeq(s, p + 1, Len(s))

\* func(window, axis=dim): reduces dimension dim, which disappears
ApplyAxis(func, window, dim) ==
    LET newshape == RemoveAt(window.shape, dim + 1)
        n == window.shape[dim + 1]
    IN  NdArray(newshape,
                [c \in Coords(newshape) |->
                    Agg(func, [j \in 1..n |-> window.at[InsertAt(c, dim + 1, j - 1)]])])


\* ------------------------------------------------------------------------
\* _WindowFunctions
\* ------------------------------------------------------------------------
\* a setter that stores an even window size as it is
WindowSizeSetter_KeepEven(ws) ==
    IF ws = None THEN None
    ELSE IF Get(ws) < 3 THEN None
    ELSE ws

\* _WindowFunctions.window_size setter: the stored _window_size for a given
\* argument (None or an int)
WindowSizeSetter(ws) ==
    IF ws = None THEN None
    ELSE IF Get(ws) < 3 THEN None
    ELSE IF Get(ws) % 2 = 0 THEN Some(Get(ws) + 1)
    ELSE ws

\* _WindowFunctions(func, window_size)
WindowFunctions(func, ws) == [func |-> func, window_size |-> WindowSizeSetter(ws)]

\* ------------------------------------------------------------------------
\* ImageWidget: slice extraction
\* ------------------------------------------------------------------------
ndim == Len(ShapeOf(data[1]))

\* the loop "for i in range(len(self.data)): if self.data[i] is array"
DataIx(obj) == (CHOOSE i \in 1..Len(data) : data[i] = obj /\ \A m \in 1..(i - 1) : data[m] # obj) - 1

\* a window whose lower end is not clamped at 0
GetWindowIndices_NoClamp(data_ix, dim, indices_dim) ==
    IF window_funcs = None THEN IntIx(indices_dim)
    ELSE LET wf == Get(window_funcs)
             dim_str == dims_order[data_ix + 1][dim + 1]
         IN  IF dim_str \notin DOMAIN wf THEN IntIx(indices_dim)
             ELSE IF wf[dim_str] = None THEN IntIx(indices_dim)
             ELSE LET window_size == Get(wf[dim_str]).window_size
                  IN  IF window_size = Some(0) \/ window_size = None THEN IntIx(indices_dim)
                      ELSE LET half_window == (Get(window_size) - 1) \div 2
                               max_bound == dims_max_bounds[dim_str]
                           IN  RangeIx(indices_dim - half_window,
                                       Min(max_bound, indices_dim + half_window))

GetWindowIndices(data_ix, dim, indices_dim) ==
    IF window_funcs = None THEN IntIx(indices_dim)
    ELSE LET wf == Get(window_funcs)
             dim_str == dims_order[data_ix + 1][dim + 1]
         IN  IF dim_str \notin DOMAIN wf THEN IntIx(indices_dim)
             ELSE IF wf[dim_str] = None THEN IntIx(indices_dim)
             ELSE LET window_size == Get(wf[dim_str]).window_size
                  IN  IF window_size = Some(0) \/ window_size = None THEN IntIx(indices_dim)
                      ELSE LET half_window == (Get(window_size) - 1) \div 2
                               max_bound == dims_max_bounds[dim_str]
                           IN  RangeIx(Max(0, indices_dim - half_window),
                                       Min(max_bound, indices_dim + half_window))

\* the indexer list built by the first loop of _process_indices
Indexer(data_ix, slice_indices) ==
    LET order == dims_order[data_ix + 1]
    IN  AsSeq([j \in 1..ndim |->
                  IF \E k \in DOMAIN slice_indices : IndexOf(order, k) + 1 = j
                  THEN LET k == CHOOSE k \in DOMAIN slice_indices : IndexOf(order, k) + 1 = j
                       IN  GetWindowIndices(data_ix, j - 1, slice_indices[k])
                  ELSE SliceAll], ndim)

\* numerical_dims, in the order of the keys of slice_indices (the order in
\* which the slider axes were first named)
NumericalDims(data_ix, slice_indices) ==
    LET first == SelectSeq([p \in 1..Len(slider_dims) |-> p],
                           LAMBDA p : /\ slider_dims[p] \in DOMAIN slice_indices
                                      /\ \A m \in 1..(p - 1) : slider_dims[m] # slider_dims[p])
    IN  AsSeq([p \in 1..Len(first) |-> IndexOf(dims_order[data_ix + 1], slider_dims[first[p]])], Len(first))

\* the loop "for i, dim in enumerate(sorted(numerical_dims))", from iteration i
RECURSIVE WindowLoop(_, _, _, _, _)
WindowLoop(a, sorted_dims, i, indexer, data_ix) ==
    IF i >= Len(sorted_dims) \/ ~IsArray(a) THEN a
    ELSE LET dim_str == dims_order[data_ix + 1][sorted_dims[i + 1] + 1]
             dim == sorted_dims[i + 1] - i
             _indexer == AsSeq([j \in 1..(ndim - i) |-> IF j = dim + 1 THEN indexer[dim + i + 1] ELSE SliceAll],
                               ndim - i)
             window == GetItem(a, _indexer)
             next == IF _indexer[dim + 1].kind = "int" \/ ~IsArray(window) THEN window
                     ELSE ApplyAxis(Get(Get(window_funcs)[dim_str]).func, window, dim)
         IN  WindowLoop(next, sorted_dims, i + 1, indexer, data_ix)

ProcessIndices(array, slice_indices) ==
    LET data_ix == DataIx(array)
        indexer == Indexer(data_ix, slice_indices)
        numerical_dims == NumericalDims(data_ix, slice_indices)
    IN  IF window_funcs # None
        THEN WindowLoop(Array(array), SortSeq(numerical_dims, LAMBDA x, y : x < y), 0, indexer, data_ix)
        ELSE GetItem(Array(array), indexer)

\* the result of the user's function f on a frame
Applied(f, array) == [kind |-> "ndarray", func |-> f, shape |-> array.shape, at |-> array.at]

ProcessFrameApply(array, data_ix) ==
    IF data_ix \notin DOMAIN frame_apply THEN array
    ELSE IF frame_apply[data_ix] # None THEN Applied(Get(frame_apply[data_ix]), array)
    ELSE NoneFrame

\* ImageGraphic.update_data(frame): the graphic holds the frame it was given
UpdateData(ig, i, frame) == [ig EXCEPT ![i + 1] = frame]


\* ------------------------------------------------------------------------
\* ImageWidget: the current_index setter and the slider callback
\* ------------------------------------------------------------------------
\* The mutable part of the widget while a call is running:
\*   ci current_index, sl slider values, blk block_sliders, ig frames held
\*   by the graphics, nnot / nupd / nproc call counters, exc the exception raised.
\* An index argument is a sequence of items [k, isint, v] in dict order.
Item(k, isint, v) == [k |-> k, isint |-> isint, v |-> v]
Keys(index) == {index[p].k : p \in 1..Len(index)}

\* the validation loop "for k, val in index.items()", from item p
RECURSIVE ValidateFrom(_, _)
ValidateFrom(index, p) ==
    IF p > Len(index) THEN "ok"
    ELSE IF ~index[p].isint THEN "TypeError"
    ELSE IF index[p].v < 0 THEN "IndexError"
    ELSE IF index[p].v > dims_max_bounds[index[p].k] THEN "IndexError"
    ELSE ValidateFrom(index, p + 1)

\* a setter that replaces the mapping instead of merging into it
Update_Replace(ci, index) ==
    [k \in DOMAIN ci |->
        IF k \in Keys(index)
        THEN index[CHOOSE p \in 1..Len(index) : index[p].k = k].v
        ELSE 0]

\* dict.update
Update(ci, index) ==
    [k \in DOMAIN ci |->
        IF k \in Keys(index)
        THEN index[CHOOSE p \in 1..Len(index) : index[p].k = k].v
        ELSE ci[k]]

\* IntSlider(min=0, max=max_bound - 1): a value outside the range is capped
SliderClamp(k, v) == Min(Max(v, 0), dims_max_bounds[k] - 1)

RECURSIVE SetCurrentIndex(_, _)
RECURSIVE SliderValueChanged(_, _, _)
RECURSIVE SliderWrites(_, _, _)
RECURSIVE FramesLoop(_, _)

\* "self.sliders[k].value = v": the slider stores the capped value and, when
\* the stored value changes, notifies its observer _slider_value_changed
SetSliderValue(w, k, v) ==
    LET nv == SliderClamp(k, v)
    IN  IF nv = w.sl[k] THEN w
        ELSE SliderValueChanged([w EXCEPT !.sl[k] = nv, !.nnot = @ + 1], k, nv)

\* a callback that does not look at block_sliders
SliderValueChanged_Unblocked(w, dimension, new) ==
    SetCurrentIndex(w, <<Item(dimension, TRUE, new)>>)

\* _slider_value_changed(dimension, change)
SliderValueChanged(w, dimension, new) ==
    IF w.blk THEN w
    ELSE SetCurrentIndex(w, <<Item(dimension, TRUE, new)>>)

\* the loop "for k in index.keys(): self.sliders[k].value = index[k]", from item p
SliderWrites(w, index, p) ==
    IF p > Len(index) \/ w.exc # None THEN w
    ELSE SliderWrites(SetSliderValue(w, index[p].k, index[p].v), index, p + 1)

\* the loop "for i, (ig, data) in enumerate(zip(...))", from array i
FramesLoop(w, i) ==
    IF i >= Len(data) \/ w.exc # None THEN w
    ELSE LET frame == ProcessIndices(data[i + 1], w.ci)
             counted == [w EXCEPT !.nproc[i + 1] = @ + 1]
         IN  IF ~IsArray(frame) THEN [counted EXCEPT !.exc = Some(frame.kind)]
             ELSE FramesLoop([counted EXCEPT !.ig = UpdateData(@, i, ProcessFrameApply(frame, i)),
                                             !.nupd[i + 1] = @ + 1],
                             i + 1)

\* a setter that clears block_sliders at its end
SetCurrentIndex_LateClear(w, index) ==
    IF ~(Keys(index) \subseteq DOMAIN w.ci) THEN [w EXCEPT !.exc = Some("KeyError")]
    ELSE IF ValidateFrom(index, 1) # "ok" THEN [w EXCEPT !.exc = Some(ValidateFrom(index, 1))]
    ELSE LET merged == [w EXCEPT !.ci = Update(w.ci, index)]
             written == SliderWrites([merged EXCEPT !.blk = TRUE], index, 1)
             shown == FramesLoop(written, 0)
         IN  IF shown.exc # None THEN shown ELSE [shown EXCEPT !.blk = FALSE]

\* the current_index setter
SetCurrentIndex(w, index) ==
    IF ~(Keys(index) \subseteq DOMAIN w.ci) THEN [w EXCEPT !.exc = Some("KeyError")]
    ELSE IF ValidateFrom(index, 1) # "ok" THEN [w EXCEPT !.exc = Some(ValidateFrom(index, 1))]
    ELSE LET merged == [w EXCEPT !.ci = Update(w.ci, index)]
             written == SliderWrites([merged EXCEPT !.blk = TRUE], index, 1)
         IN  IF written.exc # None THEN written
             ELSE FramesLoop([written EXCEPT !.blk = FALSE], 0)

\* ------------------------------------------------------------------------
\* ImageWidget: the window_funcs setter
\* ------------------------------------------------------------------------
\* An argument is [form, tup, map]: form "None"; form "tuple" with tup the
\* pair [func, ws]; form "dict" with map a dict label -> None or [func, ws].
\* ws is None or an int.
WinNone == [form |-> "None", tup |-> None, map |-> None]
WinTuple(func, ws) == [form |-> "tuple", tup |-> Some([func |-> func, ws |-> ws]), map |-> None]
WinDict(m) == [form |-> "dict", tup |-> None, map |-> Some(m)]

\* the value of self._window_funcs after "self.window_funcs = sa", and the
\* exception the assignment raises
SetWindowFuncs(wf, sa) ==
    IF sa.form = "None" THEN [wf |-> None, exc |-> None]
    ELSE IF sa.form \notin {"tuple", "dict"} THEN [wf |-> wf, exc |-> Some("TypeError")]
    ELSE IF sa.form = "tuple"
    THEN IF Len(slider_dims) > 1 THEN [wf |-> wf, exc |-> Some("TypeError")]
         ELSE IF Get(sa.tup).ws = None THEN [wf |-> wf, exc |-> Some("TypeError")]
         ELSE LET dim_str == slider_dims[1]
              IN  [wf |-> Some([k \in {dim_str} |->
                                   Some(WindowFunctions(Get(sa.tup).func, Get(sa.tup).ws))]),
                   exc |-> None]
    ELSE LET m == Get(sa.map)
             old == IF wf = None THEN [k \in {} |-> None] ELSE Get(wf)
         IN  [wf |-> Some([k \in DOMAIN old \cup DOMAIN m |->
                             IF k \in DOMAIN m
                             THEN IF m[k] = None THEN None
                                  ELSE Some(WindowFunctions(Get(m[k]).func, Get(m[k]).ws))
                             ELSE old[k]]),
              exc |-> None]


\* ------------------------------------------------------------------------
\* Construction
\* ------------------------------------------------------------------------
\* the constructor's processing of its frame_apply argument [form, f, map]:
\* form "None", form "callable" with f, form "dict" with map index -> function
FaNone == [form |-> "None", f |-> "", map |-> <<>>]
FaCallable(f) == [form |-> "callable", f |-> f, map |-> <<>>]
FaDict(m) == [form |-> "dict", f |-> "", map |-> m]

FrameApplyInit(arg, n) ==
    CASE arg.form = "None" -> [i \in {} |-> None]
      [] arg.form = "callable" -> [i \in {0} |-> Some(arg.f)]
      [] arg.form = "dict" ->
            [i \in 0..(n - 1) |-> IF i \in DOMAIN arg.map THEN Some(arg.map[i]) ELSE None]

\* self._dims_max_bounds
DimsMaxBounds(d, orders, sdims) ==
    LET bound(k) == {ShapeOf(d[i])[IndexOf(orders[i], k) + 1] : i \in 1..Len(d)}
    IN  [k \in Range(sdims) |-> CHOOSE b \in bound(k) : \A c \in bound(k) : b <= c]

tzxy == <<"t", "z", "x", "y">>
ztxy == <<"z", "t", "x", "y">>
txzy == <<"t", "x", "z", "y">>

\* the constructor arguments the model explores, all of them accepted by
\* the constructor's validation
\* a list of arrays is shown in a GridPlot, a single array in a Plot
Config(d, orders, sdims, fa) ==
    [data |-> d, dims_order |-> orders, slider_dims |-> sdims, frame_apply |-> fa,
     plot_type |-> IF Len(d) > 1 THEN "grid" ELSE "single"]

\* a grid of two arrays with different axis orders, and a single array with one slider
MainConfigs ==
    { Config(<<"A", "B">>, <<tzxy, ztxy>>, <<"t", "z">>, FaNone),
      Config(<<"A", "B">>, <<tzxy, ztxy>>, <<"z", "t">>, FaDict([i \in {0} |-> "g"])),
      Config(<<"A">>, <<tzxy>>, <<"t">>, FaCallable("g")) }

\* also: the same array object shown twice, an array whose slider axes are
\* separated by x, and a deep array
Configs ==
    MainConfigs
    \cup { Config(<<"A", "A">>, <<tzxy, ztxy>>, <<"t", "z">>, FaNone),
           Config(<<"C">>, <<txzy>>, <<"t", "z">>, FaNone),
           Config(<<"D">>, <<tzxy>>, <<"t", "z">>, FaNone) }

\* no direct call of _process_indices yet
NoCall == [ix |-> -1, frame |-> NoneFrame]

\* the state of a widget constructed with configuration c and window_funcs
\* argument sa, from arguments with the given faults
ConstructedWith(c, sa, faults) ==
    /\ data = c.data
    /\ dims_order = c.dims_order
    /\ slider_dims = c.slider_dims
    /\ frame_apply = FrameApplyInit(c.frame_apply, Len(c.data))
    /\ window_funcs = SetWindowFuncs(None, sa).wf
    /\ SetWindowFuncs(None, sa).exc = None
    /\ current_index = [k \in Range(c.slider_dims) |-> 0]
    /\ dims_max_bounds = DimsMaxBounds(c.data, c.dims_order, c.slider_dims)
    /\ plot = c.plot_type
    /\ image_graphics = [i \in 1..Len(c.data) |-> ProcessIndices(c.data[i], current_index)]
    /\ sliders = [k \in Range(c.slider_dims) |-> 0]
    /\ block_sliders = FALSE
    /\ lastOp = "init"
    /\ lastArg = <<>>
    /\ lastFaults = faults
    /\ lastWin = sa
    /\ lastResult = "ok"
    /\ nNotify = 0
    /\ nUpdate = [i \in 1..Len(c.data) |-> 0]
    /\ nProcess = [i \in 1..Len(c.data) |-> 1]
    /\ lastFrame = NoCall

\* the state of a widget constructed from valid arguments
Constructed(c, sa) == ConstructedWith(c, sa, {})

\* ------------------------------------------------------------------------
\* Construction: the validation of the constructor's arguments
\* ------------------------------------------------------------------------
\* The arguments are a record [data, dims_order, slider_dims, window_funcs,
\* frame_apply]:
\*   data         [list, arrays]: a list of arrays, or (list FALSE) one array
\*   dims_order   form "None"; form "str" with s an axis order; form "dict"
\*                with items a list of [ix, order] in dict order
\*   slider_dims  form "None"; form "int" with i; form "str" with s; form
\*                "list" with list a list of "int" / "str" elements
\*   window_funcs as for the window_funcs setter
\*   frame_apply  as above
DataArg(isList, arrays) == [list |-> isList, arrays |-> arrays]
DoNone == [form |-> "None", s |-> <<>>, items |-> <<>>]
DoStr(s) == [form |-> "str", s |-> s, items |-> <<>>]
DoDict(items) == [form |-> "dict", s |-> <<>>, items |-> items]
SdNone == [form |-> "None", i |-> 0, s |-> "", list |-> <<>>]
SdInt(i) == [form |-> "int", i |-> i, s |-> "", list |-> <<>>]
SdStr(ch) == [form |-> "str", i |-> 0, s |-> ch, list |-> <<>>]
SdList(l) == [form |-> "list", i |-> 0, s |-> "", list |-> l]
\* arguments that are neither None nor of an accepted type
WinOther == [form |-> "other", tup |-> None, map |-> None]
FaOther == [form |-> "other", f |-> "", map |-> <<>>]

DEFAULT_DIMS_ORDER(n) ==
    CASE n = 2 -> <<"x", "y">>
      [] n = 3 -> <<"t", "x", "y">>
      [] n = 4 -> <<"t", "z", "x", "y">>

NdimOf(obj) == Len(ShapeOf(obj))

\* what the constructor has stored in self when it raises exc or (exc None)
\* reaches the creation of the plot
Stored(exc, d, orders, sdims, fa) ==
    [exc |-> exc, data |-> d, dims_order |-> orders, slider_dims |-> sdims, frame_apply |-> fa]

\* the loop "for data_ix in list(dims_order.keys())", from item p
RECURSIVE DimsOrderDict(_, _, _, _)
DimsOrderDict(orders, items, p, nd) ==
    IF p > Len(items) THEN [exc |-> None, orders |-> orders]
    ELSE IF Len(items[p].order) # nd THEN [exc |-> Some("ValueError"), orders |-> orders]
    ELSE IF Range(items[p].order) # Range(DEFAULT_DIMS_ORDER(nd))
    THEN [exc |-> Some("ValueError"), orders |-> orders]
    ELSE IF items[p].ix < -Len(orders) \/ items[p].ix >= Len(orders)
    THEN [exc |-> Some("IndexError"), orders |-> orders]
    ELSE DimsOrderDict([orders EXCEPT ![Wrap(items[p].ix, Len(orders)) + 1] = items[p].order],
                       items, p + 1, nd)

\* self._dims_order after the processing of the dims_order argument
DimsOrderInit(arg, n, nd) ==
    LET default == [i \in 1..n |-> DEFAULT_DIMS_ORDER(nd)]
    IN  CASE arg.form = "None" -> [exc |-> None, orders |-> default]
          [] arg.form = "str" ->
                IF Len(arg.s) # nd THEN [exc |-> Some("ValueError"), orders |-> default]
                ELSE [exc |-> None, orders |-> [i \in 1..n |-> arg.s]]
          [] arg.form = "dict" -> DimsOrderDict(default, arg.items, 1, nd)

\* sorted(v) of two axis orders are equal
SameChars(o1, o2) ==
    /\ Len(o1) = Len(o2)
    /\ \A ch \in Range(o1) \cup Range(o2) :
          Cardinality({j \in 1..Len(o1) : o1[j] = ch}) = Cardinality({j \in 1..Len(o2) : o2[j] = ch})

\* one slider_dims element: the label it names, or the exception
SliderDim(e, orders) ==
    IF e.form = "int"
    THEN IF \E i \in 1..Len(orders) : orders[i] # orders[1] THEN [exc |-> Some("ValueError"), label |-> ""]
         ELSE IF e.i < -Len(orders[1]) \/ e.i >= Len(orders[1]) THEN [exc |-> Some("IndexError"), label |-> ""]
         ELSE [exc |-> None, label |-> orders[1][Wrap(e.i, Len(orders[1])) + 1]]
    ELSE IF e.s \notin Range(orders[1]) THEN [exc |-> Some("ValueError"), label |-> ""]
         ELSE [exc |-> None, label |-> e.s]

\* the loop "for sdm in slider_dims", from element p
RECURSIVE SliderDimsList(_, _, _, _)
SliderDimsList(sdims, l, p, orders) ==
    IF p > Len(l) THEN [exc |-> None, sdims |-> sdims]
    ELSE LET r == SliderDim(l[p], orders)
         IN  IF r.exc # None THEN [exc |-> r.exc, sdims |-> sdims]
             ELSE SliderDimsList(Append(sdims, r.label), l, p + 1, orders)

\* self._slider_dims after the processing of the slider_dims argument
SliderDimsInit(arg, orders, sa, fa) ==
    CASE arg.form = "None" ->
            IF "t" \notin Range(orders[1]) THEN [exc |-> Some("ValueError"), sdims |-> <<>>]
            ELSE [exc |-> None, sdims |-> <<"t">>]
      [] arg.form \in {"int", "str"} ->
            LET r == SliderDim(arg, orders)
            IN  IF r.exc # None THEN [exc |-> r.exc, sdims |-> <<>>]
                ELSE [exc |-> None, sdims |-> <<r.label>>]
      [] arg.form = "list" ->
            IF sa.form \notin {"dict", "None"} THEN [exc |-> Some("TypeError"), sdims |-> <<>>]
            ELSE IF fa.form \notin {"dict", "None"} THEN [exc |-> Some("TypeError"), sdims |-> <<>>]
            ELSE SliderDimsList(<<>>, arg.list, 1, orders)

\* the constructor up to and including the processing of frame_apply
Validate(a) ==
    LET d == a.data.arrays
        nd == NdimOf(d[1])
        do == DimsOrderInit(a.dims_order, Len(d), nd)
        sd == SliderDimsInit(a.slider_dims, do.orders, a.window_funcs, a.frame_apply)
        nofa == [i \in {} |-> None]
    IN  IF a.data.list /\ \E i \in 1..Len(d) : NdimOf(d[i]) # nd
        THEN Stored(Some("ValueError"), <<>>, <<>>, <<>>, nofa)
        ELSE IF do.exc # None THEN Stored(do.exc, d, do.orders, <<>>, nofa)
        ELSE IF \E i \in 1..Len(d) : ~SameChars(do.orders[i], do.orders[1])
        THEN Stored(Some("ValueError"), d, do.orders, <<>>, nofa)
        ELSE IF sd.exc # None THEN Stored(sd.exc, d, do.orders, sd.sdims, nofa)
        ELSE IF a.frame_apply.form = "other" THEN Stored(Some("TypeError"), d, do.orders, sd.sdims, nofa)
        ELSE Stored(None, d, do.orders, sd.sdims, FrameApplyInit(a.frame_apply, Len(d)))

\* the constructor has raised exc: no plot, graphic or slider was created
Aborted(exc, faults) ==
    /\ dims_max_bounds = <<>>
    /\ current_index = <<>>
    /\ plot = "none"
    /\ image_graphics = <<>>
    /\ sliders = <<>>
    /\ block_sliders = FALSE
    /\ lastOp = "init"
    /\ lastArg = <<>>
    /\ lastFaults = faults
    /\ lastWin = WinNone
    /\ lastResult = exc
    /\ nNotify = 0
    /\ nUpdate = <<>>
    /\ nProcess = <<>>
    /\ lastFrame = NoCall

\* ImageWidget(data, dims_order, slider_dims, window_funcs, frame_apply)
\* called with arguments a that have the given faults
Construct(a, faults) ==
    LET v == Validate(a)
    IN  /\ data = v.data
        /\ dims_order = v.dims_order
        /\ slider_dims = v.slider_dims
        /\ frame_apply = v.frame_apply
        /\ IF v.exc # None
           THEN window_funcs = None /\ Aborted(Get(v.exc), faults)
           ELSE IF SetWindowFuncs(None, a.window_funcs).exc # None
           THEN window_funcs = None /\ Aborted(Get(SetWindowFuncs(None, a.window_funcs).exc), faults)
           ELSE ConstructedWith([Config(v.data, v.dims_order, v.slider_dims, a.frame_apply)
                                    EXCEPT !.plot_type = IF a.data.list THEN "grid" ELSE "single"],
                                a.window_funcs, faults)

\* ------------------------------------------------------------------------
\* Operations
\* ------------------------------------------------------------------------
Widget == [ci |-> current_index, sl |-> sliders, blk |-> block_sliders, ig |-> image_graphics,
           nnot |-> 0, nupd |-> [i \in 1..Len(data) |-> 0], nproc |-> [i \in 1..Len(data) |-> 0], exc |-> None]

Outcome(exc) == IF exc = None THEN "ok" ELSE Get(exc)

Store(w) ==
    /\ current_index' = w.ci
    /\ sliders' = w.sl
    /\ block_sliders' = w.blk
    /\ image_graphics' = w.ig
    /\ nNotify' = w.nnot
    /\ nUpdate' = w.nupd
    /\ nProcess' = w.nproc
    /\ lastResult' = Outcome(w.exc)

\* what the documented contract of current_index finds wrong with an argument:
\* "key" a key that is no slider axis, "type" a value that is no int,
\* "range" an int for a slider axis outside 0 .. max_bound - 1
Faults(index) ==
    LET items == Range(index)
    IN  (IF \E a \in items : a.k \notin Range(slider_dims) THEN {"key"} ELSE {})
        \cup (IF \E a \in items : ~a.isint THEN {"type"} ELSE {})
        \cup (IF \E a \in items : /\ a.isint
                                   /\ a.k \in Range(slider_dims)
                                   /\ (a.v < 0 \/ a.v > dims_max_bounds[a.k] - 1)
              THEN {"range"} ELSE {})

\* widget.current_index = index
AssignCurrentIndex(index) ==
    /\ Store(SetCurrentIndex(Widget, index))
    /\ lastOp' = "assign"
    /\ lastArg' = IF lastResult' = "ok" THEN index ELSE <<>>
    /\ lastFaults' = Faults(index)
    /\ lastFrame' = NoCall
    /\ UNCHANGED <<cfgVars, window_funcs, lastWin>>

\* the user drags slider k to v: the slider takes the value and notifies
UserMovesSlider(k, v) ==
    /\ k \in DOMAIN sliders
    /\ v \in 0..(dims_max_bounds[k] - 1)
    /\ v # sliders[k]
    /\ Store(SliderValueChanged([Widget EXCEPT !.sl[k] = v, !.nnot = 1], k, v))
    /\ lastOp' = "slider"
    /\ lastArg' = IF lastResult' = "ok" THEN <<Item(k, TRUE, v)>> ELSE <<>>
    /\ lastFaults' = Faults(<<Item(k, TRUE, v)>>)
    /\ lastFrame' = NoCall
    /\ UNCHANGED <<cfgVars, window_funcs, lastWin>>

\* widget.window_funcs = sa
AssignWindowFuncs(sa) ==
    /\ window_funcs' = SetWindowFuncs(window_funcs, sa).wf
    /\ lastResult' = Outcome(SetWindowFuncs(window_funcs, sa).exc)
    /\ lastOp' = "window_funcs"
    /\ lastWin' = sa
    /\ lastArg' = <<>>
    /\ lastFaults' = {}
    /\ nNotify' = 0
    /\ nUpdate' = [i \in 1..Len(data) |-> 0]
    /\ nProcess' = [i \in 1..Len(data) |-> 0]
    /\ lastFrame' = NoCall
    /\ UNCHANGED <<cfgVars, current_index, sliders, block_sliders, image_graphics>>

\* a _process_indices that stores the index entry of each axis back into
\* the mapping it was given
ProcessIndicesState_WritesBack(w, array, slice_indices) ==
    [w EXCEPT !.ci = [k \in DOMAIN w.ci |->
                         IF k \in DOMAIN slice_indices
                         THEN Indexer(DataIx(array), slice_indices)[IndexOf(dims_order[DataIx(array) + 1], k) + 1].lo
                         ELSE w.ci[k]]]

\* the widget after _process_indices(array, slice_indices): the method
\* assigns to its local variables indexer, numerical_dims and a only, and
\* indexing creates new arrays
ProcessIndicesState(w, array, slice_indices) == w

\* widget._process_indices(widget.data[i - 1], widget.current_index)
CallProcessIndices(i) ==
    /\ i \in 1..Len(data)
    /\ LET w == ProcessIndicesState(Widget, data[i], current_index)
           frame == ProcessIndices(data[i], current_index)
       IN  /\ current_index' = w.ci
           /\ sliders' = w.sl
           /\ block_sliders' = w.blk
           /\ image_graphics' = w.ig
           /\ lastFrame' = [ix |-> i - 1, frame |-> frame]
           /\ lastResult' = IF IsArray(frame) THEN "ok" ELSE frame.kind
    /\ lastOp' = "process"
    /\ lastArg' = <<>>
    /\ lastFaults' = {}
    /\ nNotify' = 0
    /\ nUpdate' = [j \in 1..Len(data) |-> 0]
    /\ nProcess' = [j \in 1..Len(data) |-> IF j = i THEN 1 ELSE 0]
    /\ UNCHANGED <<cfgVars, window_funcs, lastWin>>

\* ------------------------------------------------------------------------
\* Inputs
\* ------------------------------------------------------------------------
Labels == {"t", "z"}
\* "c" is a key that is never a slider axis
KeyPool == Labels \cup {"c"}
Funcs == {"mean", "max"}

IntItems(keys, vals) == {Item(k, TRUE, v) : k \in keys, v \in vals}
\* index dicts with one key
Singles(items) == {<<a>> : a \in items}
\* index dicts with two keys, in either order
Pairs(items) == {<<ab[1], ab[2]>> : ab \in {p \in items \X items : p[1].k # p[2].k}}

\* window sizes: None and the ints -1 .. MaxWs
WsVals == {None} \cup {Some(ws) : ws \in (-1)..MaxWs}
WinEntries(funcs, sizes) == {None} \cup {Some([func |-> f, ws |-> ws]) : f \in funcs, ws \in sizes}
WinArgs(funcs, sizes) ==
    {WinNone}
    \cup {WinTuple(f, ws) : f \in funcs, ws \in sizes}
    \cup {WinDict(m) : m \in UNION {[ks -> WinEntries(funcs, sizes)] : ks \in SUBSET Labels}}

\* ------------------------------------------------------------------------
\* Specification Spec: assignments of current_index with every kind of
\* argument, and slider events, on widgets constructed with or without a
\* window on t
\* ------------------------------------------------------------------------
MainItems ==
    IntItems(Labels, (-1)..MaxVal) \cup {Item(k, FALSE, 0) : k \in Labels} \cup {Item("c", TRUE, 0)}
MainWinArgs ==
    { WinNone,
      WinTuple("mean", Some(3)),
      WinDict([k \in {"t"} |-> Some([func |-> "mean", ws |-> Some(3)])]) }

Init == \E c \in MainConfigs, sa \in MainWinArgs : Constructed(c, sa)

Next ==
    \/ \E index \in Singles(MainItems) \cup Pairs(MainItems) : AssignCurrentIndex(index)
    \/ \E k \in Labels, v \in 0..MaxVal : UserMovesSlider(k, v)

Spec == Init /\ [][Next]_vars

\* ------------------------------------------------------------------------
\* Specification SpecSlice: slice extraction at every position, on widgets
\* constructed with every window spec
\* ------------------------------------------------------------------------
\* the window specs: "mean" along t, "max" along z, each disabled, absent or
\* with a window size
FuncOf(k) == IF k = "t" THEN "mean" ELSE "max"
SliceSizes == {None, Some(3), Some(MaxWs)}
SliceWinArgs ==
    {WinNone}
    \cup {WinTuple("mean", ws) : ws \in SliceSizes}
    \cup {WinDict(m) : m \in UNION {{f \in [ks -> WinEntries(Funcs, SliceSizes)] :
                                        \A k \in ks : f[k] # None => Get(f[k]).func = FuncOf(k)} :
                                    ks \in SUBSET Labels}}

InitSlice == \E c \in Configs, sa \in SliceWinArgs : Constructed(c, sa)

\* an assignment the documented contract accepts
ValidAssign(index) == Faults(index) = {} /\ AssignCurrentIndex(index)

NextSlice ==
    \/ \E index \in Singles(IntItems(Labels, 0..(SizeDeep - 1))) : ValidAssign(index)
    \/ \E k \in Labels, v \in 0..(SizeDeep - 1) : UserMovesSlider(k, v)
    \/ \E i \in 1..2 : CallProcessIndices(i)

SpecSlice == InitSlice /\ [][NextSlice]_vars

\* ------------------------------------------------------------------------
\* Specification SpecWindow: assignments of window_funcs with every window
\* size
\* ------------------------------------------------------------------------
InitWindow == \E c \in MainConfigs : Constructed(c, WinNone)

NextWindow == \E sa \in WinArgs({"mean"}, WsVals) : AssignWindowFuncs(sa)

SpecWindow == InitWindow /\ [][NextWindow]_vars

\* ------------------------------------------------------------------------
\* Specification SpecInit: construction with valid and invalid arguments,
\* followed by index changes on the widgets that were constructed
\* ------------------------------------------------------------------------
\* the axis order the arguments give array 0
OrderArg(a) ==
    LET nd == NdimOf(a.data.arrays[1])
        first == {p \in 1..Len(a.dims_order.items) : a.dims_order.items[p].ix = 0}
    IN  CASE a.dims_order.form = "str" -> a.dims_order.s
          [] a.dims_order.form = "dict" /\ first # {} -> a.dims_order.items[CHOOSE p \in first : TRUE].order
          [] OTHER -> DEFAULT_DIMS_ORDER(nd)

\* the axis orders and the slider_dims elements the arguments hold
OrdersIn(arg) ==
    CASE arg.form = "str" -> {arg.s}
      [] arg.form = "dict" -> {arg.items[p].order : p \in 1..Len(arg.items)}
      [] OTHER -> {}
ElementsIn(arg) ==
    CASE arg.form \in {"int", "str"} -> {arg}
      [] arg.form = "list" -> Range(arg.list)
      [] OTHER -> {}

\* the axis of array 0 that a slider_dims element names
NamesAxis(e, order) ==
    IF e.form = "int" THEN 0 <= e.i /\ e.i < Len(order) ELSE e.s \in Range(order)
AxisNamed(e, order) == IF e.form = "int" THEN order[e.i + 1] ELSE e.s

\* what the documented contract of the constructor finds wrong with its
\* arguments:
\*   "ndim"          arrays with differing numbers of dimensions
\*   "order_len"     an axis order whose length is not the number of dimensions
\*   "order_chars"   an axis order of the right length with other characters
\*                   than the default order for that number of dimensions
\*   "order_index"   an axis order for an array that is not there
\*   "slider_empty"  an empty list of slider axes
\*   "slider_axis"   a slider axis that is no axis of the arrays
\*   "slider_xy"     a slider axis that is x or y
\*   "window_funcs"  neither None, a (func, int) tuple for one slider, nor a dict
\*   "frame_apply"   neither None, a callable for one slider, nor a dict
CtorFaults(a) ==
    LET d == a.data.arrays
        nd == NdimOf(d[1])
        order == OrderArg(a)
        many == a.slider_dims.form = "list" /\ Len(a.slider_dims.list) > 1
    IN  (IF a.data.list /\ \E i \in 1..Len(d) : NdimOf(d[i]) # nd THEN {"ndim"} ELSE {})
        \cup (IF \E o \in OrdersIn(a.dims_order) : Len(o) # nd THEN {"order_len"} ELSE {})
        \cup (IF \E o \in OrdersIn(a.dims_order) : Len(o) = nd /\ Range(o) # Range(DEFAULT_DIMS_ORDER(nd))
              THEN {"order_chars"} ELSE {})
        \cup (IF a.dims_order.form = "dict" /\ \E p \in 1..Len(a.dims_order.items) :
                                                  a.dims_order.items[p].ix \notin 0..(Len(d) - 1)
              THEN {"order_index"} ELSE {})
        \cup (IF a.slider_dims.form = "list" /\ Len(a.slider_dims.list) = 0 THEN {"slider_empty"} ELSE {})
        \cup (IF \E e \in ElementsIn(a.slider_dims) : ~NamesAxis(e, order) THEN {"slider_axis"} ELSE {})
        \cup (IF \E e \in ElementsIn(a.slider_dims) : NamesAxis(e, order) /\ AxisNamed(e, order) \in {"x", "y"}
              THEN {"slider_xy"} ELSE {})
        \cup (IF \/ a.window_funcs.form = "other"
                 \/ a.window_funcs.form = "tuple" /\ (many \/ Get(a.window_funcs.tup).ws = None)
              THEN {"window_funcs"} ELSE {})
        \cup (IF a.frame_apply.form = "other" \/ (a.frame_apply.form = "callable" /\ many)
              THEN {"frame_apply"} ELSE {})

tab == <<"t", "a", "b">>
tzab == <<"t", "z", "a", "b">>

\* a 4-d array, a grid of two 4-d arrays, a grid of a 4-d and a 3-d array,
\* a 3-d array, a 2-d array
DataArgs ==
    { DataArg(FALSE, <<"A">>), DataArg(TRUE, <<"A", "B">>), DataArg(TRUE, <<"A", "E">>),
      DataArg(FALSE, <<"E">>), DataArg(FALSE, <<"F">>) }
DimsOrderArgs ==
    { DoNone, DoStr(tzxy), DoStr(ztxy), DoStr(DEFAULT_DIMS_ORDER(3)), DoStr(tab),
      DoDict(<<[ix |-> 1, order |-> ztxy]>>), DoDict(<<[ix |-> 1, order |-> tzab]>>),
      DoDict(<<[ix |-> 0, order |-> DEFAULT_DIMS_ORDER(3)]>>) }
SliderDimsArgs ==
    { SdNone, SdInt(0), SdInt(2), SdInt(5), SdStr("t"), SdStr("z"), SdStr("x"), SdStr("q"),
      SdList(<<>>), SdList(<<SdStr("t")>>), SdList(<<SdStr("t"), SdStr("z")>>),
      SdList(<<SdInt(0), SdStr("z")>>), SdList(<<SdStr("x")>>) }
WindowFuncsArgs ==
    { WinNone, WinTuple("mean", Some(3)), WinTuple("mean", None),
      WinDict([k \in {"t"} |-> Some([func |-> "mean", ws |-> Some(3)])]), WinOther }
FrameApplyArgs == { FaNone, FaCallable("g"), FaDict([i \in {0} |-> "g"]), FaOther }

CtorArgs ==
    [data : DataArgs, dims_order : DimsOrderArgs, slider_dims : SliderDimsArgs,
     window_funcs : WindowFuncsArgs, frame_apply : FrameApplyArgs]

InitCtor == \E a \in CtorArgs : Construct(a, CtorFaults(a))

\* operations need a widget
Exists == lastOp # "init" \/ lastResult = "ok"

NextCtor ==
    \/ \E index \in Singles(IntItems(Labels, 0..1)) : Exists /\ ValidAssign(index)
    \/ \E k \in Labels, v \in 0..1 : Exists /\ UserMovesSlider(k, v)

SpecInit == InitCtor /\ [][NextCtor]_vars

\* ------------------------------------------------------------------------
\* Properties
\* ------------------------------------------------------------------------
\* max_bound(k): the minimum over the displayed arrays of the array's size along k
MaxBoundOf(k) ==
    LET sizes == {ShapeOf(data[i])[IndexOf(dims_order[i], k) + 1] : i \in 1..Len(data)}
    IN  CHOOSE b \in sizes : \A c \in sizes : b <= c

IsIndexOp(op) == op \in {"assign", "slider"}
ValueIn(index, k) == index[CHOOSE p \in 1..Len(index) : index[p].k = k].v

\* the frame the code computes for array i (0-based) from the index ci
FrameOf(i, ci) ==
    LET frame == ProcessIndices(data[i + 1], ci)
    IN  IF IsArray(frame) THEN ProcessFrameApply(frame, i) ELSE frame

\* C1: in every reachable state the keys of current_index are the slider
\* axes and every value v of axis k satisfies 0 <= v <= max_bound(k) - 1.
C1_IndexInBounds ==
    /\ DOMAIN current_index = Range(slider_dims)
    /\ \A k \in DOMAIN current_index :
          0 <= current_index[k] /\ current_index[k] <= MaxBoundOf(k) - 1

\* C2: an assignment of current_index is rejected with IndexError when a
\* supplied value for a slider axis is negative or greater than
\* max_bound - 1 (and nothing else is wrong with the argument), and with
\* KeyError when a supplied key is no slider axis.
C2_Rejected ==
    lastOp = "assign" =>
        /\ lastFaults = {"range"} => lastResult = "IndexError"
        /\ "key" \in lastFaults => lastResult = "KeyError"

\* C3: when an assignment of current_index, direct or by a slider event,
\* ends in an error, current_index, the slider values and the frames held
\* by the graphics are what they were before the call (for a slider event:
\* before the callback, that is with the slider the user moved).
C3_ErrorLeavesState ==
    [][(IsIndexOp(lastOp') /\ lastResult' # "ok") =>
          /\ current_index' = current_index
          /\ image_graphics' = image_graphics
          /\ lastOp' = "assign" => sliders' = sliders
          /\ lastOp' = "slider" => Cardinality({k \in DOMAIN sliders : sliders'[k] # sliders[k]}) <= 1]_vars

\* C4: a successful assignment that mentions the subset S of the slider axes
\* sets current_index[k] to the supplied value for k in S and leaves
\* current_index[j] at its previous value for every other slider axis j.
C4_MergeUpdate ==
    [][(IsIndexOp(lastOp') /\ lastResult' = "ok") =>
          /\ DOMAIN current_index' = DOMAIN current_index
          /\ \A k \in DOMAIN current_index :
                current_index'[k] = IF k \in Keys(lastArg') THEN ValueIn(lastArg', k) ELSE current_index[k]]_vars

\* a successful assignment of one axis while the other axis is not at zero
C4_Witness ==
    /\ lastOp = "assign"
    /\ lastResult = "ok"
    /\ Len(lastArg) = 1
    /\ \E j \in DOMAIN current_index \ Keys(lastArg) : current_index[j] # 0

\* C5: a slider event, which carries a slider axis and a value the slider
\* can hold, is validated, merged and then pushed: after it every graphic
\* has received, once, the frame computed from the merged current_index.
C5_EventPushesFrames ==
    (lastOp = "slider" /\ lastFaults = {}) =>
        /\ lastResult = "ok"
        /\ \A i \in 1..Len(data) :
              /\ nUpdate[i] = 1
              /\ image_graphics[i] = FrameOf(i - 1, current_index)

\* C6: the slider writes of the setter do not re-enter it: no assignment
\* runs _process_indices or update_data more than once for an array, and
\* one that returns has run each exactly once for every array, however
\* many sliders it wrote.
C6_SingleRecompute ==
    IsIndexOp(lastOp) =>
        \A i \in 1..Len(data) :
            /\ nProcess[i] <= 1 /\ nUpdate[i] <= 1
            /\ lastResult = "ok" => (nProcess[i] = 1 /\ nUpdate[i] = 1)

\* an assignment of two axes whose two slider writes both notified
C6_Witness ==
    /\ lastOp = "assign"
    /\ lastResult = "ok"
    /\ Len(lastArg) = 2
    /\ nNotify = 2
    /\ \A i \in 1..Len(data) : nUpdate[i] = 1

\* the window size stored for axis k, None when k has no enabled window
StoredWindow(k) ==
    IF window_funcs = None THEN None
    ELSE IF k \notin DOMAIN Get(window_funcs) THEN None
    ELSE IF Get(window_funcs)[k] = None THEN None
    ELSE Get(Get(window_funcs)[k]).window_size

\* the effective window size the rule gives for the int w
Normalized(w) == IF w < 3 THEN None ELSE IF w % 2 = 1 THEN Some(w) ELSE Some(w + 1)

\* C7: a window size w >= 3 is stored as w when odd and as w + 1 when even;
\* a window size w < 3 is stored as None; neither raises an error.
C7_Normalization ==
    lastOp = "window_funcs" =>
        /\ lastWin.form = "dict" =>
              /\ lastResult = "ok"
              /\ \A k \in DOMAIN Get(lastWin.map) :
                    LET e == Get(lastWin.map)[k]
                    IN  (e # None /\ Get(e).ws # None) => StoredWindow(k) = Normalized(Get(Get(e).ws))
        /\ (lastWin.form = "tuple" /\ Len(slider_dims) = 1 /\ Get(lastWin.tup).ws # None) =>
              /\ lastResult = "ok"
              /\ StoredWindow(slider_dims[1]) = Normalized(Get(Get(lastWin.tup).ws))

\* a dict that gives one axis an even window size and the other one below 3
C7_Witness ==
    /\ lastOp = "window_funcs"
    /\ lastWin.form = "dict"
    /\ DOMAIN Get(lastWin.map) = {"t", "z"}
    /\ Get(lastWin.map)["t"] # None /\ Get(Get(lastWin.map)["t"]).ws = Some(4)
    /\ Get(lastWin.map)["z"] # None /\ Get(Get(lastWin.map)["z"]).ws = Some(2)
    /\ StoredWindow("t") = Some(5)
    /\ StoredWindow("z") = None

\* the index entry _get_window_indices gives array data_ix for slider axis k
WindowEntry(data_ix, k) ==
    GetWindowIndices(data_ix, IndexOf(dims_order[data_ix + 1], k), current_index[k])
\* the indices an entry selects
Selected(e) == IF e.kind = "range" THEN e.lo..(e.hi - 1) ELSE {e.lo}
HalfWindow(k) == (Get(StoredWindow(k)) - 1) \div 2
ValidPos(k) == 0 <= current_index[k] /\ current_index[k] <= MaxBoundOf(k) - 1

\* C8: for a slider axis with an enabled window of size ws and a position pos
\* in 0 .. max_bound - 1 the selected indices are the half-open range
\* [max(0, pos - h), min(max_bound, pos + h)) with h = (ws - 1) / 2, all of
\* them in 0 .. max_bound - 1; an axis without an enabled window is indexed
\* with the scalar pos.
C8_WindowRange ==
    \A i \in 1..Len(data), k \in DOMAIN current_index :
        ValidPos(k) =>
            LET e == WindowEntry(i - 1, k)
                pos == current_index[k]
            IN  IF StoredWindow(k) # None
                THEN /\ e.kind = "range"
                     /\ e.lo = Max(0, pos - HalfWindow(k))
                     /\ e.hi = Min(MaxBoundOf(k), pos + HalfWindow(k))
                     /\ Selected(e) = {v \in 0..(MaxBoundOf(k) - 1) :
                                          pos - HalfWindow(k) <= v /\ v < pos + HalfWindow(k)}
                ELSE e = IntIx(pos)

\* position 0 with window size 5 selects [0, 2)
C8_Witness ==
    \E k \in DOMAIN current_index :
        /\ lastOp \in {"assign", "slider"}
        /\ StoredWindow(k) = Some(5)
        /\ current_index[k] = 0
        /\ WindowEntry(0, k) = RangeIx(0, 2)

\* C9: away from the boundaries (h <= pos <= max_bound - 1 - h) a windowed
\* axis is aggregated over the window_size indices pos - h .. pos + h.
C9_SymmetricWindow ==
    \A i \in 1..Len(data), k \in DOMAIN current_index :
        (/\ StoredWindow(k) # None
         /\ HalfWindow(k) <= current_index[k]
         /\ current_index[k] <= MaxBoundOf(k) - 1 - HalfWindow(k)) =>
            /\ Selected(WindowEntry(i - 1, k)) =
                  (current_index[k] - HalfWindow(k))..(current_index[k] + HalfWindow(k))
            /\ Cardinality(Selected(WindowEntry(i - 1, k))) = Get(StoredWindow(k))

\* the plane of array i (1-based) at the index ci: every slider axis fixed at
\* its value in the dimension the array's own axis order gives it, every
\* other dimension in full
PlaneOf(i, ci) ==
    LET order == dims_order[i]
        kept == SelectSeq([j \in 1..Len(order) |-> j], LAMBDA j : order[j] \notin DOMAIN ci)
        shape == AsSeq([p \in 1..Len(kept) |-> ShapeOf(data[i])[kept[p]]], Len(kept))
    IN  NdArray(shape,
                [c \in Coords(shape) |->
                    Cell(data[i], AsSeq([j \in 1..Len(order) |->
                                           IF order[j] \in DOMAIN ci THEN ci[order[j]]
                                           ELSE c[IndexOf(kept, j) + 1]], Len(order)))])

\* C10: without window functions and at a valid current_index, the slice
\* extracted for every displayed array is the plane that fixes each slider
\* axis at its value in the dimension of that array's own axis order.
C10_PlainSlice ==
    (window_funcs = None /\ \A k \in DOMAIN current_index : ValidPos(k)) =>
        \A i \in 1..Len(data) : ProcessIndices(data[i], current_index) = PlaneOf(i, current_index)

\* the post-process function configured for array i (0-based), None when
\* there is none
Configured(i) == IF i \in DOMAIN frame_apply THEN frame_apply[i] ELSE None

\* the frame array i is to show: f_i(slice) when f_i is configured, else the slice
PostProcessed(i, slice) ==
    IF Configured(i) # None THEN Applied(Get(Configured(i)), slice) ELSE slice

\* C11: after an index change that returned, the frame held by the graphic
\* of every array i is f_i(slice) when a post-process function f_i is
\* configured for i and the extracted slice itself when none is, also for
\* the arrays a frame_apply dict does not mention.
C11_FrameApply ==
    (IsIndexOp(lastOp) /\ lastResult = "ok") =>
        \A i \in 1..Len(data) :
            image_graphics[i] = PostProcessed(i - 1, ProcessIndices(data[i], current_index))

\* C12: a constructed widget has a non-empty list of slider axes without x
\* and y, and a slider_dims argument that is an empty list or names x or y,
\* by character or by position, makes the construction fail.
C12_SliderDims ==
    /\ plot # "none" => (slider_dims # <<>> /\ "x" \notin Range(slider_dims) /\ "y" \notin Range(slider_dims))
    /\ (lastOp = "init" /\ lastFaults \cap {"slider_empty", "slider_xy"} # {}) => lastResult # "ok"

\* C13: a construction with invalid arguments (arrays with differing
\* numbers of dimensions, an axis order of wrong length or wrong characters,
\* an invalid slider_dims, an invalid window_funcs or frame_apply) raises
\* ValueError or TypeError, and no plot, graphic or slider has been created.
C13_FailFast ==
    (lastOp = "init" /\ lastFaults \ {"order_index"} # {}) =>
        /\ lastResult \in {"ValueError", "TypeError"}
        /\ plot = "none"
        /\ image_graphics = <<>>
        /\ sliders = <<>>

SliderDimsOf(i) ==
    SelectSeq([j \in 1..Len(dims_order[i]) |-> j - 1], LAMBDA d : dims_order[i][d + 1] \in DOMAIN current_index)
ShownDimsOf(i) ==
    SelectSeq([j \in 1..Len(dims_order[i]) |-> j], LAMBDA j : dims_order[i][j] \notin DOMAIN current_index)

\* the element of the original array i at coord after the first n slider
\* dimensions were indexed or reduced: a scalar axis is fixed at its index,
\* a windowed axis is reduced with its own function over its own range, the
\* later dimension outermost
RECURSIVE ReducedAt(_, _, _)
ReducedAt(i, coord, n) ==
    IF n = 0 THEN Cell(data[i], coord)
    ELSE LET d == SliderDimsOf(i)[n]
             k == dims_order[i][d + 1]
             e == WindowEntry(i - 1, k)
         IN  IF e.kind = "int" THEN ReducedAt(i, [coord EXCEPT ![d + 1] = e.lo], n - 1)
             ELSE Agg(Get(Get(window_funcs)[k]).func,
                      [j \in 1..(e.hi - e.lo) |->
                          ReducedAt(i, [coord EXCEPT ![d + 1] = e.lo + j - 1], n - 1)])

\* the array over the shown dimensions of array i whose elements are the
\* reductions of the original array
ReducedSliceOf(i) ==
    LET shown == ShownDimsOf(i)
        shape == AsSeq([p \in 1..Len(shown) |-> ShapeOf(data[i])[shown[p]]], Len(shown))
    IN  NdArray(shape,
                [c \in Coords(shape) |->
                    ReducedAt(i,
                              AsSeq([j \in 1..Len(dims_order[i]) |->
                                        IF dims_order[i][j] \in DOMAIN current_index THEN 0
                                        ELSE c[IndexOf(shown, j) + 1]], Len(dims_order[i])),
                              Len(SliderDimsOf(i)))])

\* C15: with window functions configured and two slider axes, the slice of
\* every array is 2-d and equals the original array with each scalar slider
\* axis indexed at its position and each windowed slider axis reduced over
\* its range with its own function, the axes taken in ascending order of
\* their dimension in the array's own axis order, whether they are adjacent
\* or separated by x, and whether one, both or none is windowed.
C15_TwoSliderWindows ==
    (window_funcs # None /\ Cardinality(DOMAIN current_index) = 2) =>
        \A i \in 1..Len(data) :
            /\ ProcessIndices(data[i], current_index) = ReducedSliceOf(i)
            /\ Len(ProcessIndices(data[i], current_index).shape) = 2

\* C16: block_sliders is false in every state between operations, also
\* after an assignment that ended in an exception, so that no slider event
\* is dropped: a slider event either ends in an error or has recomputed the
\* frame of every array.
C16_BlockCleared ==
    /\ block_sliders = FALSE
    /\ lastOp = "slider" => (lastResult # "ok" \/ \A i \in 1..Len(data) : nProcess[i] = 1)

\* an assignment that wrote a slider and then ended in an exception
C16_Witness ==
    /\ lastOp = "assign"
    /\ lastResult = "IndexError"
    /\ nProcess[1] = 1
    /\ \E k \in DOMAIN sliders : sliders[k] # 0
    /\ block_sliders = FALSE

\* C17: after construction and after every assignment of current_index that
\* returned without error, the value of the slider of every slider axis k is
\* current_index[k].
C17_SliderAgreement ==
    (lastOp = "init" \/ (lastOp = "assign" /\ lastResult = "ok")) =>
        \A k \in DOMAIN sliders : sliders[k] = current_index[k]

\* C18: in every state between operations, also right after construction
\* and after an assignment of window_funcs, the frame held by the graphic of
\* every array is the post-processed slice of that array at the current
\* current_index under the current window specs.
C18_DisplayedFrame ==
    plot # "none" =>
        \A i \in 1..Len(data) :
            image_graphics[i] = PostProcessed(i - 1, ProcessIndices(data[i], current_index))

TypeOK ==
    /\ plot # "none" => DOMAIN current_index = Range(slider_dims)
    /\ block_sliders \in BOOLEAN
    /\ lastResult \in {"ok", "KeyError", "TypeError", "IndexError", "ValueError"}

====
